---- MODULE Spec2Model ----
(***************************************************************************)
(* A model of the LZW encoder of lzwencode.c: the driver LZWEncodeFile,    *)
(* the dictionary tree (MakeNode, FindDictionaryEntry, MakeKey, FreeTree)  *)
(* and the code words handed to PutCodeWord.                               *)
(*                                                                         *)
(* The widths are scaled so that the whole protocol fits in a finite       *)
(* search: a character has CHAR_BIT = 1 bit instead of 8, code words start *)
(* at MIN_CODE_LEN = 2 bits instead of 9 and stop at MAX_CODE_LEN = 4 bits *)
(* instead of 20.  Every relation the source relies on is kept:            *)
(*   FIRST_CODE = 2^CHAR_BIT, MIN_CODE_LEN = CHAR_BIT + 1,                 *)
(*   MAX_CODES = 2^MAX_CODE_LEN, escape of width w = 2^w - 1,              *)
(*   shift of the prefix inside a key = CHAR_BIT / 2.                      *)
(* A statement about "9", "20", "256", "511" or "2^20" in the source is    *)
(* a statement about MIN_CODE_LEN, MAX_CODE_LEN, FIRST_CODE,               *)
(* CURRENT_MAX_CODES(MIN_CODE_LEN) - 1 or MAX_CODES here.                  *)
(***************************************************************************)
EXTENDS Integers, Sequences, FiniteSets, TLC

(***************************************************************************)
(* Program constants (scaled, see above).                                  *)
(***************************************************************************)
CHAR_BIT == 1

MIN_CODE_LEN == 2

MAX_CODE_LEN == 4

FIRST_CODE == 2 ^ CHAR_BIT

MAX_CODES == 2 ^ MAX_CODE_LEN

CURRENT_MAX_CODES(BITS) == 2 ^ BITS

EOF == -1

NULL == 0

Byte == 0 .. (2 ^ CHAR_BIT - 1)

(***************************************************************************)
(* Bounds of the search.                                                   *)
(***************************************************************************)
\* longest input file explored byte by byte with every content
MaxInputLen == 12

\* number of arbitrary bytes that may follow the dictionary-filling head
MaxTail == 5

\* An input head after which the dictionary holds MAX_CODES - FIRST_CODE
\* entries (nextCode = MAX_CODES); four more bytes can then match and write
\* the last code, MAX_CODES - 1.
FillPrefix ==
    << 0, 0, 1, 1, 0, 0, 0, 0, 1, 0, 0, 1, 0, 1, 1, 0, 1, 1, 1, 1,
       0, 0, 0, 0, 0, 1, 0 >>

(***************************************************************************)
(* Bit helpers.                                                            *)
(***************************************************************************)
RECURSIVE BitOr(_, _)
\* a | b on non-negative integers
BitOr(a, b) ==
    IF a = 0 THEN b
    ELSE IF b = 0 THEN a
    ELSE (IF (a % 2 = 1) \/ (b % 2 = 1) THEN 1 ELSE 0)
         + 2 * BitOr(a \div 2, b \div 2)

\* number of low-order bits of a character that form its "ls nibble"
NIBBLE == CHAR_BIT \div 2

\* the ms nibble is shifted one bit short and lands on the prefix
MakeKeyShortShift(prefixCode, suffixChar) ==
    LET ms == suffixChar - (suffixChar % (2 ^ NIBBLE))
        ls == suffixChar % (2 ^ NIBBLE)
    IN  BitOr(BitOr(ms * (2 ^ (MAX_CODE_LEN - 1)), prefixCode * (2 ^ NIBBLE)),
              ls)

(***************************************************************************)
(* MakeKey: {ms nibble of c} + prefix + {ls nibble of c}.                  *)
(*   key = suffixChar & 0xF0;  key <<= MAX_CODE_LEN;                       *)
(*   key |= (prefixCode << 4); key |= (suffixChar & 0x0F);                 *)
(***************************************************************************)
MakeKey(prefixCode, suffixChar) ==
    LET ms == suffixChar - (suffixChar % (2 ^ NIBBLE))
        ls == suffixChar % (2 ^ NIBBLE)
    IN  BitOr(BitOr(ms * (2 ^ MAX_CODE_LEN), prefixCode * (2 ^ NIBBLE)), ls)

\* the node is given the code after the one it was made for
MakeNodeCodeAfter(codeWord, prefixCode, suffixChar) ==
    [ codeWord   |-> codeWord + 1,
      prefixCode |-> prefixCode,
      suffixChar |-> suffixChar,
      left       |-> NULL,
      right      |-> NULL ]

(***************************************************************************)
(* MakeNode: a fresh dictionary entry with no children.                    *)
(***************************************************************************)
MakeNode(codeWord, prefixCode, suffixChar) ==
    [ codeWord   |-> codeWord,
      prefixCode |-> prefixCode,
      suffixChar |-> suffixChar,
      left       |-> NULL,
      right      |-> NULL ]

VARIABLES
    pc,             \* position of LZWEncodeFile
    pending,        \* bytes the input file is known to hold, not yet read
    more,           \* how many further bytes the input file may still hold
    input,          \* bytes read from fpIn so far
    c,              \* character to add to string (or EOF)
    code,           \* code for current string
    currentCodeLen, \* length of the current code
    nextCode,       \* next available code index
    heap,           \* allocated dict_node_t's; a pointer is an index, 0 is NULL
    dictRoot,       \* root of dictionary tree
    root,           \* cursor of FindDictionaryEntry
    node,           \* node returned by FindDictionaryEntry
    out,            \* code words handed to PutCodeWord, in order
    fullReported,   \* "Error: Dictionary Full" was printed
    fpIn,           \* state of the input file
    bfpOut,         \* state of the output bit file
    freed,          \* pointers passed to free()
    result          \* return value of LZWEncodeFile ("none" while running)

vars == << pc, pending, more, input, c, code, currentCodeLen, nextCode, heap,
           dictRoot, root, node, out, fullReported, fpIn, bfpOut, freed,
           result >>

(***************************************************************************)
(* PutCodeWord: the word is recorded as handed over (code, codeLen); site  *)
(* names the call that wrote it.  The bits that reach the file are the     *)
(* codeLen low-order bits of code (see WireBits).                          *)
(***************************************************************************)
PutCodeWord(bfp, codeWord, codeLen, site) ==
    Append(bfp, [ code |-> codeWord, codeLen |-> codeLen, site |-> site ])

(***************************************************************************)
(* fgetc(fpIn): the next byte of the file or EOF.  The file holds the      *)
(* bytes of pending followed by at most `more` bytes of any value; once    *)
(* EOF has been returned it is returned again.                             *)
(***************************************************************************)
FgetcChoices ==
    IF pending # << >> THEN { Head(pending) }
    ELSE (IF more > 0 THEN Byte ELSE {}) \cup { EOF }

Fgetc(ch) ==
    /\ ch \in FgetcChoices
    /\ c' = ch
    /\ pending' = IF pending # << >> THEN Tail(pending) ELSE pending
    /\ more' = IF pending # << >> THEN more
               ELSE IF ch = EOF THEN 0 ELSE more - 1
    /\ input' = IF ch = EOF THEN input ELSE Append(input, ch)

(***************************************************************************)
(* State after lines 134-161: both files open, empty dictionary, 9 bit     *)
(* code words, nextCode = FIRST_CODE.                                      *)
(***************************************************************************)
Init ==
    /\ pc = "first"
    /\ \/ pending = << >> /\ more = MaxInputLen
       \/ pending = FillPrefix /\ more = MaxTail
    /\ input = << >>
    /\ c = EOF
    /\ code = 0
    /\ currentCodeLen = MIN_CODE_LEN
    /\ nextCode = FIRST_CODE
    /\ heap = << >>
    /\ dictRoot = NULL
    /\ root = NULL
    /\ node = NULL
    /\ out = << >>
    /\ fullReported = FALSE
    /\ fpIn = "open"
    /\ bfpOut = "open"
    /\ freed = {}
    /\ result = "none"

\* the right branch is not freed
RECURSIVE FreeTreeLeftOnly(_, _)
FreeTreeLeftOnly(h, n) ==
    (IF h[n].left # NULL THEN FreeTreeLeftOnly(h, h[n].left) ELSE {})
    \cup { n }

(***************************************************************************)
(* FreeTree: the pointers freed by FreeTree(n): n and both its subtrees.   *)
(***************************************************************************)
RECURSIVE FreeTree(_, _)
FreeTree(h, n) ==
    (IF h[n].left # NULL THEN FreeTree(h, h[n].left) ELSE {})
    \cup (IF h[n].right # NULL THEN FreeTree(h, h[n].right) ELSE {})
    \cup { n }

(***************************************************************************)
(* LZWEncodeFile, lines 165-170: first read, empty file.                   *)
(***************************************************************************)
\* the empty file is taken for a success
EmptyFileSucceeds ==
    /\ pc = "first"
    /\ Fgetc(EOF)
    /\ result' = "TRUE"
    /\ pc' = "returned"
    /\ UNCHANGED << code, currentCodeLen, nextCode, heap, dictRoot, root,
                    node, out, fullReported, fpIn, bfpOut, freed >>

EmptyFile ==
    /\ pc = "first"
    /\ Fgetc(EOF)
    /\ result' = "FALSE"
    /\ pc' = "returned"
    /\ UNCHANGED << code, currentCodeLen, nextCode, heap, dictRoot, root,
                    node, out, fullReported, fpIn, bfpOut, freed >>

(***************************************************************************)
(* Lines 165-174: first read, code = first character.                      *)
(***************************************************************************)
FirstChar ==
    /\ pc = "first"
    /\ \E ch \in Byte :
          /\ Fgetc(ch)
          /\ code' = ch
    /\ pc' = "seed"
    /\ UNCHANGED << currentCodeLen, nextCode, heap, dictRoot, root, node,
                    out, fullReported, fpIn, bfpOut, freed, result >>

(***************************************************************************)
(* Lines 176-188: the tree root is made from the first two characters and  *)
(* the code of the first one is written.                                   *)
(***************************************************************************)
\* the code of the first character is not written
SeedRootNoWrite ==
    /\ pc = "seed"
    /\ \E ch \in Byte :
          /\ Fgetc(ch)
          /\ heap' = Append(heap, MakeNode(nextCode, code, ch))
          /\ dictRoot' = Len(heap) + 1
          /\ nextCode' = nextCode + 1
          /\ code' = ch
    /\ pc' = "loop"
    /\ UNCHANGED << currentCodeLen, root, node, out, fullReported, fpIn,
                    bfpOut, freed, result >>

\* the node made from the first two characters is not kept as the root
SeedRootNoRoot ==
    /\ pc = "seed"
    /\ \E ch \in Byte :
          /\ Fgetc(ch)
          /\ heap' = Append(heap, MakeNode(nextCode, code, ch))
          /\ nextCode' = nextCode + 1
          /\ out' = PutCodeWord(out, code, currentCodeLen, "seed")
          /\ code' = ch
    /\ pc' = "loop"
    /\ UNCHANGED << currentCodeLen, dictRoot, root, node, fullReported, fpIn,
                    bfpOut, freed, result >>

SeedRoot ==
    /\ pc = "seed"
    /\ \E ch \in Byte :
          /\ Fgetc(ch)
          /\ heap' = Append(heap, MakeNode(nextCode, code, ch))
          /\ dictRoot' = Len(heap) + 1
          /\ nextCode' = nextCode + 1
          /\ out' = PutCodeWord(out, code, currentCodeLen, "seed")
          /\ code' = ch
    /\ pc' = "loop"
    /\ UNCHANGED << currentCodeLen, root, node, fullReported, fpIn, bfpOut,
                    freed, result >>

(***************************************************************************)
(* Line 177 with EOF: nothing is created, the loop test at 191 follows.    *)
(***************************************************************************)
\* the code of the first character is written although no second one came
SeedEofWrites ==
    /\ pc = "seed"
    /\ Fgetc(EOF)
    /\ out' = PutCodeWord(out, code, currentCodeLen, "seed")
    /\ pc' = "loop"
    /\ UNCHANGED << code, currentCodeLen, nextCode, heap, dictRoot, root,
                    node, fullReported, fpIn, bfpOut, freed, result >>

SeedEof ==
    /\ pc = "seed"
    /\ Fgetc(EOF)
    /\ pc' = "loop"
    /\ UNCHANGED << code, currentCodeLen, nextCode, heap, dictRoot, root,
                    node, out, fullReported, fpIn, bfpOut, freed, result >>

(***************************************************************************)
(* Lines 191-194: a character is read and FindDictionaryEntry is entered   *)
(* (lines 365-375); an empty tree makes it return NULL at once.            *)
(***************************************************************************)
ReadChar ==
    /\ pc = "loop"
    /\ \E ch \in Byte : Fgetc(ch)
    /\ IF dictRoot = NULL
       THEN /\ node' = NULL
            /\ root' = root
            /\ pc' = "test"
       ELSE /\ root' = dictRoot
            /\ node' = node
            /\ pc' = "find"
    /\ UNCHANGED << code, currentCodeLen, nextCode, heap, dictRoot, out,
                    fullReported, fpIn, bfpOut, freed, result >>

(***************************************************************************)
(* Line 191 with EOF: the loop is left.                                    *)
(***************************************************************************)
ReadEof ==
    /\ pc = "loop"
    /\ Fgetc(EOF)
    /\ pc' = "final"
    /\ UNCHANGED << code, currentCodeLen, nextCode, heap, dictRoot, root,
                    node, out, fullReported, fpIn, bfpOut, freed, result >>

(***************************************************************************)
(* FindDictionaryEntry, one turn of the while (1) loop, lines 377-413.     *)
(* FindNext(h, r, p, ch) is the node the turn moves to, or NULL when the   *)
(* turn returns r.                                                         *)
(***************************************************************************)
\* the cursor is not moved to the left child
FindNextStaysLeft(h, r, prefixCode, ch) ==
    LET searchKey == MakeKey(prefixCode, ch)
        key       == MakeKey(h[r].prefixCode, h[r].suffixChar)
    IN  IF key = searchKey THEN NULL
        ELSE IF searchKey < key
        THEN (IF h[r].left # NULL THEN r ELSE NULL)
        ELSE h[r].right

\* the two branches of the search are taken the wrong way round
FindNextReversed(h, r, prefixCode, ch) ==
    LET searchKey == MakeKey(prefixCode, ch)
        key       == MakeKey(h[r].prefixCode, h[r].suffixChar)
    IN  IF key = searchKey THEN NULL
        ELSE IF searchKey < key THEN h[r].right
        ELSE h[r].left

FindNext(h, r, prefixCode, ch) ==
    LET searchKey == MakeKey(prefixCode, ch)
        key       == MakeKey(h[r].prefixCode, h[r].suffixChar)
    IN  IF key = searchKey THEN NULL
        ELSE IF searchKey < key THEN h[r].left
        ELSE h[r].right

FindStep ==
    /\ pc = "find"
    /\ LET nxt == FindNext(heap, root, code, c)
       IN  IF nxt = NULL
           THEN /\ node' = root
                /\ root' = NULL
                /\ pc' = "test"
           ELSE /\ root' = nxt
                /\ node' = node
                /\ pc' = "find"
    /\ UNCHANGED << pending, more, input, c, code, currentCodeLen, nextCode,
                    heap, dictRoot, out, fullReported, fpIn, bfpOut, freed,
                    result >>

(***************************************************************************)
(* Lines 196-201: code + c is in the dictionary.  Reading node->prefixCode *)
(* through a NULL node stops the program.                                  *)
(***************************************************************************)
\* only the last character of the entry is compared
IsEntrySuffixOnly(h, n, prefixCode, ch) ==
    h[n].suffixChar = ch

IsEntry(h, n, prefixCode, ch) ==
    (h[n].prefixCode = prefixCode) /\ (h[n].suffixChar = ch)

\* the matched string is also written out
CodeInDictionaryWrites ==
    /\ pc = "test"
    /\ node # NULL
    /\ IsEntry(heap, node, code, c)
    /\ out' = PutCodeWord(out, code, currentCodeLen, "string")
    /\ code' = heap[node].codeWord
    /\ pc' = "loop"
    /\ UNCHANGED << pending, more, input, c, currentCodeLen, nextCode, heap,
                    dictRoot, root, node, fullReported, fpIn, bfpOut, freed,
                    result >>

CodeInDictionary ==
    /\ pc = "test"
    /\ IF node = NULL
       THEN /\ pc' = "crashed"
            /\ code' = code
       ELSE /\ IsEntry(heap, node, code, c)
            /\ code' = heap[node].codeWord
            /\ pc' = "loop"
    /\ UNCHANGED << pending, more, input, c, currentCodeLen, nextCode, heap,
                    dictRoot, root, node, out, fullReported, fpIn, bfpOut,
                    freed, result >>

(***************************************************************************)
(* Lines 204-221: code + c is not in the dictionary and there is room: a   *)
(* node is made and hung under the node FindDictionaryEntry returned.      *)
(***************************************************************************)
\* line 205: is there room for one more code
HasRoomOffByOne(nxt) == nxt <= MAX_CODES

HasRoom(nxt) == nxt < MAX_CODES

\* the comparison of line 212 turned round
AttachLeftReversed(prefixCode, ch, parent) ==
    MakeKey(prefixCode, ch) > MakeKey(parent.prefixCode, parent.suffixChar)

AttachLeft(prefixCode, ch, parent) ==
    MakeKey(prefixCode, ch) < MakeKey(parent.prefixCode, parent.suffixChar)

AddToDictionary ==
    /\ pc = "test"
    /\ node # NULL
    /\ ~ IsEntry(heap, node, code, c)
    /\ HasRoom(nextCode)
    /\ LET tmp == Len(heap) + 1
           h1  == Append(heap, MakeNode(nextCode, code, c))
       IN  heap' = IF AttachLeft(code, c, heap[node])
                   THEN [ h1 EXCEPT ![node].left = tmp ]
                   ELSE [ h1 EXCEPT ![node].right = tmp ]
    /\ nextCode' = nextCode + 1
    /\ pc' = "width"
    /\ UNCHANGED << pending, more, input, c, code, currentCodeLen, dictRoot,
                    root, node, out, fullReported, fpIn, bfpOut, freed,
                    result >>

(***************************************************************************)
(* Lines 222-225: no room, only the diagnostic is printed.                 *)
(***************************************************************************)
DictionaryFull ==
    /\ pc = "test"
    /\ node # NULL
    /\ ~ IsEntry(heap, node, code, c)
    /\ ~ HasRoom(nextCode)
    /\ fullReported' = TRUE
    /\ pc' = "width"
    /\ UNCHANGED << pending, more, input, c, code, currentCodeLen, nextCode,
                    heap, dictRoot, root, node, out, fpIn, bfpOut, freed,
                    result >>

(***************************************************************************)
(* Lines 228-235, one turn of the width loop: the all-ones word is written *)
(* at the current width and the width grows by one.                        *)
(***************************************************************************)
\* the loop test without its upper limit on the width
NeedMoreBitsUnbounded(codeWord, codeLen) ==
    codeWord >= CURRENT_MAX_CODES(codeLen) - 1

NeedMoreBits(codeWord, codeLen) ==
    /\ codeWord >= CURRENT_MAX_CODES(codeLen) - 1
    /\ codeLen < MAX_CODE_LEN

\* the width is increased before the all-ones word is written
WidthGrowBeforeEscape ==
    /\ pc = "width"
    /\ NeedMoreBits(code, currentCodeLen)
    /\ currentCodeLen' = currentCodeLen + 1
    /\ out' = PutCodeWord(out, CURRENT_MAX_CODES(currentCodeLen + 1) - 1,
                          currentCodeLen + 1, "escape")
    /\ UNCHANGED << pc, pending, more, input, c, code, nextCode, heap,
                    dictRoot, root, node, fullReported, fpIn, bfpOut, freed,
                    result >>

WidthGrow ==
    /\ pc = "width"
    /\ NeedMoreBits(code, currentCodeLen)
    /\ out' = PutCodeWord(out, CURRENT_MAX_CODES(currentCodeLen) - 1,
                          currentCodeLen, "escape")
    /\ currentCodeLen' = currentCodeLen + 1
    /\ UNCHANGED << pc, pending, more, input, c, code, nextCode, heap,
                    dictRoot, root, node, fullReported, fpIn, bfpOut, freed,
                    result >>

(***************************************************************************)
(* Lines 237-241: the code of the string before c is written, the new      *)
(* code is just c.                                                         *)
(***************************************************************************)
\* the width test is an if: after one escape the code is written
WriteCodeAfterOneEscape ==
    /\ pc = "width"
    /\ \/ ~ NeedMoreBits(code, currentCodeLen)
       \/ (out # << >> /\ out[Len(out)].site = "escape")
    /\ out' = PutCodeWord(out, code, currentCodeLen, "string")
    /\ code' = c
    /\ pc' = "loop"
    /\ UNCHANGED << pending, more, input, c, currentCodeLen, nextCode, heap,
                    dictRoot, root, node, fullReported, fpIn, bfpOut, freed,
                    result >>

WriteCode ==
    /\ pc = "width"
    /\ ~ NeedMoreBits(code, currentCodeLen)
    /\ out' = PutCodeWord(out, code, currentCodeLen, "string")
    /\ code' = c
    /\ pc' = "loop"
    /\ UNCHANGED << pending, more, input, c, currentCodeLen, nextCode, heap,
                    dictRoot, root, node, fullReported, fpIn, bfpOut, freed,
                    result >>

(***************************************************************************)
(* Lines 245-257: the last code is written, both files are closed, the     *)
(* dictionary is freed and TRUE is returned.                               *)
(***************************************************************************)
\* the last code is written at the first width, not the current one
WriteLastAtFirstWidth ==
    /\ pc = "final"
    /\ out' = PutCodeWord(out, code, MIN_CODE_LEN, "last")
    /\ fpIn' = "closed"
    /\ bfpOut' = "closed"
    /\ freed' = IF dictRoot # NULL THEN FreeTree(heap, dictRoot) ELSE freed
    /\ result' = "TRUE"
    /\ pc' = "returned"
    /\ UNCHANGED << pending, more, input, c, code, currentCodeLen, nextCode,
                    heap, dictRoot, root, node, fullReported >>

WriteLast ==
    /\ pc = "final"
    /\ out' = PutCodeWord(out, code, currentCodeLen, "last")
    /\ fpIn' = "closed"
    /\ bfpOut' = "closed"
    /\ freed' = IF dictRoot # NULL THEN FreeTree(heap, dictRoot) ELSE freed
    /\ result' = "TRUE"
    /\ pc' = "returned"
    /\ UNCHANGED << pending, more, input, c, code, currentCodeLen, nextCode,
                    heap, dictRoot, root, node, fullReported >>

Next ==
    \/ EmptyFile
    \/ FirstChar
    \/ SeedRoot
    \/ SeedEof
    \/ ReadChar
    \/ ReadEof
    \/ FindStep
    \/ CodeInDictionary
    \/ AddToDictionary
    \/ DictionaryFull
    \/ WidthGrow
    \/ WriteCode
    \/ WriteLast

Spec == Init /\ [][Next]_vars

\* the program is one sequential thread that always takes its next step
FairSpec == Spec /\ WF_vars(Next)

TypeOK ==
    /\ pc \in { "first", "seed", "loop", "find", "test", "width", "final",
                "returned", "crashed" }
    /\ c \in Byte \cup { EOF }
    /\ code \in 0 .. (MAX_CODES - 1)
    /\ nextCode \in FIRST_CODE .. MAX_CODES
    /\ dictRoot \in 0 .. Len(heap)
    /\ root \in 0 .. Len(heap)
    /\ node \in 0 .. Len(heap)
    /\ result \in { "none", "TRUE", "FALSE" }

(***************************************************************************)
(* The output file: every word contributes its codeLen low-order bits,     *)
(* with no padding between words.  A character of CHAR_BIT bits leaves     *)
(* fewer than MIN_CODE_LEN padding bits at the end of the file, so the     *)
(* padding never reads as a word and is left out.                          *)
(***************************************************************************)
RECURSIVE BitsOf(_, _)
BitsOf(v, n) ==
    IF n = 0 THEN << >> ELSE Append(BitsOf(v \div 2, n - 1), v % 2)

RECURSIVE WireBits(_)
WireBits(ws) ==
    IF ws = << >> THEN << >>
    ELSE LET k == Len(ws)
         IN  WireBits(SubSeq(ws, 1, k - 1)) \o BitsOf(ws[k].code, ws[k].codeLen)

(***************************************************************************)
(* The decoder of the wire format: a word of w bits is read at the         *)
(* decoder's own width; an all-ones word below the maximum width means     *)
(* "grow by one bit"; every data word after the first defines the next     *)
(* code as (previous word, first character of this word's string).         *)
(***************************************************************************)
RECURSIVE ValueOf(_, _, _)
ValueOf(bits, pos, n) ==
    IF n = 0 THEN 0
    ELSE 2 * ValueOf(bits, pos, n - 1) + bits[pos + n]

GetCodeWord(bits, pos, codeLen) ==
    IF pos + codeLen > Len(bits) THEN EOF ELSE ValueOf(bits, pos, codeLen)

RECURSIVE DecodeString(_, _)
DecodeString(d, cw) ==
    IF cw < FIRST_CODE THEN << cw >>
    ELSE LET e == d[cw - FIRST_CODE + 1]
         IN  Append(DecodeString(d, e.prefixCode), e.suffixChar)

RECURSIVE DecodeLoop(_, _, _, _, _, _)
DecodeLoop(bits, pos, w, d, lastCode, acc) ==
    LET cw == GetCodeWord(bits, pos, w)
    IN  IF cw = EOF THEN acc
        ELSE IF (cw = CURRENT_MAX_CODES(w) - 1) /\ (w < MAX_CODE_LEN)
        THEN DecodeLoop(bits, pos + w, w + 1, d, lastCode, acc)
        ELSE LET nxt == FIRST_CODE + Len(d)
                 s   == IF cw < nxt THEN DecodeString(d, cw)
                        ELSE LET p == DecodeString(d, lastCode)
                             IN  Append(p, p[1])
                 d2  == IF nxt < MAX_CODES
                        THEN Append(d, [ prefixCode |-> lastCode,
                                         suffixChar |-> s[1] ])
                        ELSE d
             IN  DecodeLoop(bits, pos + w, w, d2, cw, acc \o s)

LZWDecode(bits) ==
    LET cw == GetCodeWord(bits, 0, MIN_CODE_LEN)
    IN  IF cw = EOF THEN << >>
        ELSE DecodeLoop(bits, MIN_CODE_LEN, MIN_CODE_LEN, << >>, cw, << cw >>)

Returned == pc = "returned"

Succeeded == Returned /\ result = "TRUE"

\* the last word written is neither the escape of its width nor wider than it
LastWordFits ==
    LET w == out[Len(out)]
    IN  (w.code < CURRENT_MAX_CODES(w.codeLen) - 1)
        \/ (w.codeLen = MAX_CODE_LEN)

(***************************************************************************)
(* C1: decoding the emitted stream of a non-empty input gives back the     *)
(* input, whatever the way the input ends.                                 *)
(***************************************************************************)
RoundTrip ==
    Succeeded => LZWDecode(WireBits(out)) = input

\* the round trip of the runs whose last word went through unharmed
RoundTripWhenLastWordFits ==
    (Succeeded /\ LastWordFits) => LZWDecode(WireBits(out)) = input

Escape(w) == CURRENT_MAX_CODES(w) - 1

(***************************************************************************)
(* C2: every change of currentCodeLen from w to w + 1 is immediately       *)
(* preceded in the output by exactly one word 2^w - 1 written at width w,  *)
(* and a word written as an escape is always followed by the width         *)
(* becoming w + 1; the first word of width MIN_CODE_LEN + 1 comes right    *)
(* after the escape of width MIN_CODE_LEN.                                 *)
(***************************************************************************)
EscapeInStream ==
    /\ \A i \in 2 .. Len(out) :
          (out[i].codeLen # out[i - 1].codeLen) =>
             /\ out[i].codeLen = out[i - 1].codeLen + 1
             /\ out[i - 1].code = Escape(out[i - 1].codeLen)
             /\ out[i - 1].site = "escape"
    /\ \A i \in 1 .. Len(out) :
          (out[i].site = "escape") =>
             /\ out[i].code = Escape(out[i].codeLen)
             /\ IF i < Len(out)
                THEN out[i + 1].codeLen = out[i].codeLen + 1
                ELSE currentCodeLen = out[i].codeLen + 1
             /\ \A j \in 1 .. Len(out) :
                   (out[j].site = "escape"
                    /\ out[j].codeLen = out[i].codeLen) => j = i
    /\ (out # << >>) => (out[Len(out)].codeLen = currentCodeLen
                         \/ (out[Len(out)].site = "escape"
                             /\ currentCodeLen = out[Len(out)].codeLen + 1))

EscapeStep ==
    /\ (currentCodeLen' # currentCodeLen) =>
          /\ currentCodeLen' = currentCodeLen + 1
          /\ out' = Append(out, [ code    |-> Escape(currentCodeLen),
                                  codeLen |-> currentCodeLen,
                                  site    |-> "escape" ])
    /\ (Len(out') > Len(out) /\ out'[Len(out')].site = "escape") =>
          currentCodeLen' = currentCodeLen + 1

EscapePrecedesGrowth == [] EscapeInStream /\ [][EscapeStep]_vars

\* a word of width MIN_CODE_LEN + 1 has been written after words of width
\* MIN_CODE_LEN
FirstWiderWordWritten ==
    \E i \in 2 .. Len(out) :
       /\ out[i].codeLen = MIN_CODE_LEN + 1
       /\ out[i].site # "escape"
       /\ out[i - 1].codeLen = MIN_CODE_LEN

(***************************************************************************)
(* C3: every word that is not an escape, whichever call wrote it (seed,    *)
(* running or last), is below the escape value of its width, unless the    *)
(* width is the maximum.                                                   *)
(***************************************************************************)
DataWordsBelowEscape ==
    \A i \in 1 .. Len(out) :
       (out[i].site # "escape") =>
          \/ out[i].code < Escape(out[i].codeLen)
          \/ out[i].codeLen = MAX_CODE_LEN

(***************************************************************************)
(* C4: currentCodeLen starts at MIN_CODE_LEN, stays within                 *)
(* MIN_CODE_LEN .. MAX_CODE_LEN, never decreases and changes by exactly    *)
(* one at a time.                                                          *)
(***************************************************************************)
WidthInRange == currentCodeLen \in MIN_CODE_LEN .. MAX_CODE_LEN

WidthStepsByOne ==
    (currentCodeLen' = currentCodeLen)
    \/ (currentCodeLen' = currentCodeLen + 1)

WidthMonotonic ==
    /\ currentCodeLen = MIN_CODE_LEN
    /\ [] WidthInRange
    /\ [][WidthStepsByOne]_vars

\* the width has grown all the way and a word went out at the maximum
WidthReachedMax ==
    /\ currentCodeLen = MAX_CODE_LEN
    /\ out # << >>
    /\ out[Len(out)].codeLen = MAX_CODE_LEN
    /\ out[Len(out)].code >= Escape(MAX_CODE_LEN)

\* the entries of the dictionary: the nodes that hang under dictRoot
TreeNodes == IF dictRoot = NULL THEN {} ELSE FreeTree(heap, dictRoot)

\* the pair (prefixCode, ch) is the string of some entry ever created
InDictionary(h, prefixCode, ch) ==
    \E i \in 1 .. Len(h) : IsEntry(h, i, prefixCode, ch)

(***************************************************************************)
(* C5: entries get the codes FIRST_CODE, FIRST_CODE + 1, ... in creation   *)
(* order, without gap or reuse; the codes of the entries are exactly       *)
(* FIRST_CODE .. nextCode - 1; an entry is created only for a pair         *)
(* (code, c) that no entry held when it was looked up.                     *)
(***************************************************************************)
CodesOfEntries ==
    /\ nextCode = FIRST_CODE + Len(heap)
    /\ \A i \in 1 .. Len(heap) : heap[i].codeWord = FIRST_CODE + i - 1
    /\ { heap[n].codeWord : n \in TreeNodes } = FIRST_CODE .. (nextCode - 1)
    /\ Cardinality(TreeNodes) = nextCode - FIRST_CODE
    /\ \A i, j \in 1 .. Len(heap) :
          (heap[i].prefixCode = heap[j].prefixCode
           /\ heap[i].suffixChar = heap[j].suffixChar) => i = j

NewEntryStep ==
    (heap' # heap) =>
       /\ Len(heap') = Len(heap) + 1
       /\ nextCode' = nextCode + 1
       /\ LET e == heap'[Len(heap')]
          IN  /\ e.codeWord = nextCode
              /\ e.prefixCode = code
              /\ e.suffixChar = c'
              /\ ~ InDictionary(heap, e.prefixCode, e.suffixChar)
       /\ \A i \in 1 .. Len(heap) :
             /\ heap'[i].codeWord = heap[i].codeWord
             /\ heap'[i].prefixCode = heap[i].prefixCode
             /\ heap'[i].suffixChar = heap[i].suffixChar

CodeAssignment == [] CodesOfEntries /\ [][NewEntryStep]_vars

\* several entries exist and one was just hung under a node found by a search
EntryJustAdded ==
    /\ pc = "width"
    /\ Len(heap) >= 4
    /\ heap[Len(heap)].prefixCode = code
    /\ heap[Len(heap)].suffixChar = c

IsDictionaryWord(w) == (w.site # "escape") /\ (w.code >= FIRST_CODE)

(***************************************************************************)
(* C6: the dictionary codes of the emitted stream (escapes left out) are   *)
(* FIRST_CODE, FIRST_CODE + 1, ... in that order: strictly increasing,     *)
(* without gap or reuse.                                                   *)
(***************************************************************************)
EmittedCodesIncreasing ==
    LET d == SelectSeq(out, IsDictionaryWord)
    IN  \A k \in 1 .. Len(d) : d[k].code = FIRST_CODE + k - 1

(***************************************************************************)
(* C6 as amended: every dictionary code of the emitted stream is the code  *)
(* of an entry that exists when the word is written, so it lies in         *)
(* FIRST_CODE .. nextCode - 1; nothing is said about the order.            *)
(***************************************************************************)
EmittedCodeStep ==
    (Len(out') > Len(out) /\ IsDictionaryWord(out'[Len(out')])) =>
       LET w == out'[Len(out')]
       IN  /\ w.code < nextCode
           /\ \E n \in TreeNodes : heap[n].codeWord = w.code

EmittedCodesAssigned == [][EmittedCodeStep]_vars

\* one dictionary code went out twice
DictionaryCodeEmittedTwice ==
    \E i, j \in 1 .. Len(out) :
       /\ i < j
       /\ IsDictionaryWord(out[i])
       /\ IsDictionaryWord(out[j])
       /\ out[i].code = out[j].code

(***************************************************************************)
(* C7: the dictionary never holds more than MAX_CODES entries and nextCode *)
(* never exceeds MAX_CODES; once nextCode = MAX_CODES a step with a pair   *)
(* that is not in the dictionary leaves the entries and nextCode alone,    *)
(* still writes code and sets code = c, and a pair that is in the          *)
(* dictionary still matches.                                               *)
(***************************************************************************)
WithinCapacity ==
    /\ nextCode <= MAX_CODES
    /\ Len(heap) <= MAX_CODES
    /\ Cardinality(TreeNodes) <= MAX_CODES

FullStep ==
    (nextCode = MAX_CODES) =>
       /\ heap' = heap
       /\ nextCode' = nextCode
       /\ dictRoot' = dictRoot
       /\ pc' # "crashed"
       /\ (pc = "test" /\ ~ InDictionary(heap, code, c)) =>
             (pc' = "width" /\ fullReported' /\ out' = out /\ code' = code)
       /\ (pc = "width" /\ pc' = "loop") =>
             /\ out' = Append(out, [ code    |-> code,
                                     codeLen |-> currentCodeLen,
                                     site    |-> "string" ])
             /\ code' = c
       /\ (pc = "test" /\ InDictionary(heap, code, c)) =>
             /\ \E i \in 1 .. Len(heap) :
                   IsEntry(heap, i, code, c) /\ code' = heap[i].codeWord
             /\ out' = out
             /\ pc' = "loop"

CapacityBound == [] WithinCapacity /\ [][FullStep]_vars

\* at capacity, a pair that was not in the dictionary has been written out
\* and a later pair has matched an entry
NovelAndMatchAtCapacity ==
    /\ fullReported
    /\ nextCode = MAX_CODES
    /\ pc = "loop"
    /\ code >= FIRST_CODE
    /\ Len(heap) = MAX_CODES - FIRST_CODE

(***************************************************************************)
(* C8: once a first byte has been read, the operation reaches its end and  *)
(* returns TRUE, also when the dictionary is full and more novel strings   *)
(* come; the Dictionary Full diagnostic never turns the result into a      *)
(* failure, and neither the search loop nor the width loop runs forever.   *)
(***************************************************************************)
FullIsNotFailure ==
    /\ fullReported => (result # "FALSE")
    /\ pc # "crashed"
    /\ (Returned /\ input # << >>) => (result = "TRUE")

SingleByte ==
    /\ (Returned /\ Len(input) = 1) =>
          /\ result = "TRUE"
          /\ out = << [ code    |-> input[1],
                        codeLen |-> MIN_CODE_LEN,
                        site    |-> "last" ] >>
          /\ heap = << >>
          /\ nextCode = FIRST_CODE
    /\ (Len(input) = 1 /\ c = EOF /\ ~ Returned) =>
          /\ out = << >>
          /\ heap = << >>
          /\ nextCode = FIRST_CODE

\* a one-byte input has been encoded
SingleByteEncoded == Returned /\ Len(input) = 1 /\ c = EOF


\* the string of an entry, without its place in the tree
Entry(n) ==
    << heap[n].codeWord, heap[n].prefixCode, heap[n].suffixChar >>

(***************************************************************************)
(* C11: for an input of four equal bytes b the output is exactly the three *)
(* words b, FIRST_CODE, b at width MIN_CODE_LEN, and the dictionary ends   *)
(* with exactly the entries FIRST_CODE = (b, b) and                        *)
(* FIRST_CODE + 1 = (FIRST_CODE, b); the code FIRST_CODE + 1 is never      *)
(* written.                                                                *)
(***************************************************************************)
FourEqualBytes(b) == input = << b, b, b, b >>

RepeatedByteTrace ==
    \A b \in Byte :
       (Returned /\ FourEqualBytes(b)) =>
          /\ out = << [ code |-> b, codeLen |-> MIN_CODE_LEN,
                        site |-> "seed" ],
                      [ code |-> FIRST_CODE, codeLen |-> MIN_CODE_LEN,
                        site |-> "string" ],
                      [ code |-> b, codeLen |-> MIN_CODE_LEN,
                        site |-> "last" ] >>
          /\ Len(heap) = 2
          /\ TreeNodes = { 1, 2 }
          /\ Entry(1) = << FIRST_CODE, b, b >>
          /\ Entry(2) = << FIRST_CODE + 1, FIRST_CODE, b >>
          /\ \A i \in 1 .. Len(out) : out[i].code # FIRST_CODE + 1

\* four equal bytes have been encoded
FourEqualBytesEncoded == Returned /\ FourEqualBytes(1)


\* every node MakeNode ever returned
Allocated == 1 .. Len(heap)

(***************************************************************************)
(* C12: when the operation returns, on the success path, on the empty      *)
(* input path and after a Dictionary Full diagnostic alike, every entry    *)
(* created during the operation has been freed.                            *)
(***************************************************************************)
DictionaryReleased ==
    /\ Returned => (freed = Allocated)
    /\ freed \subseteq Allocated

\* a run that filled the dictionary and printed the diagnostic has returned
ReturnedAfterFull ==
    /\ Returned
    /\ fullReported
    /\ Len(heap) = MAX_CODES - FIRST_CODE


\* index of the last word before i that is not an escape (0 if none)
LastDataBefore(i) ==
    LET s == { j \in 1 .. (i - 1) : out[j].site # "escape" }
    IN  IF s = {} THEN 0 ELSE CHOOSE j \in s : \A k \in s : k <= j

\* the smallest width from w on at which v is below the escape value, or
\* MAX_CODE_LEN
WidthFor(v, w) ==
    CHOOSE x \in w .. MAX_CODE_LEN :
       /\ (v < Escape(x)) \/ (x = MAX_CODE_LEN)
       /\ \A y \in w .. (x - 1) : v >= Escape(y)

(***************************************************************************)
(* C13: a Running step that writes v with the width at w first writes one  *)
(* escape per width step, 2^w - 1, 2^(w+1) - 1, ... each at its own width, *)
(* and stops at the smallest width w' >= w with v < 2^w' - 1 (or at the    *)
(* maximum); v is written at w', and the number of escapes is w' - w.      *)
(***************************************************************************)
WidthGrowthOfStep(i) ==
    LET j  == LastDataBefore(i)
        w  == out[j].codeLen
        w2 == WidthFor(out[i].code, w)
    IN  /\ j >= 1
        /\ out[i].codeLen = w2
        /\ i - j - 1 = w2 - w
        /\ \A k \in (j + 1) .. (i - 1) :
              /\ out[k].site = "escape"
              /\ out[k].codeLen = w + (k - j - 1)
              /\ out[k].code = Escape(out[k].codeLen)

MultiStepWidthGrowth ==
    /\ \A i \in 1 .. Len(out) :
          (out[i].site = "string") => WidthGrowthOfStep(i)
    /\ (pc = "loop" /\ out # << >>) => (out[Len(out)].site # "escape")

\* one Running step has written two escapes and then its code
TwoEscapesInOneStep ==
    \E i \in 3 .. Len(out) :
       /\ out[i].site = "string"
       /\ out[i - 1].site = "escape"
       /\ out[i - 2].site = "escape"
       /\ out[i].codeLen = out[i - 2].codeLen + 2


\* the code of the entry that holds the pair (prefixCode, ch)
CodeOf(h, prefixCode, ch) ==
    h[CHOOSE i \in 1 .. Len(h) : IsEntry(h, i, prefixCode, ch)].codeWord

(***************************************************************************)
(* C14: in a Running step whose pair (code, c) is in the dictionary, from  *)
(* the read of c through the search to the match, no word and no escape    *)
(* is written, the entries, nextCode and currentCodeLen do not change,     *)
(* and the only change is code becoming the code of the matched entry.     *)
(***************************************************************************)
MatchStep ==
    /\ ((pc \in { "loop", "find" }) /\ (pc' \in { "find", "test" })) =>
          UNCHANGED << out, heap, dictRoot, nextCode, currentCodeLen, code,
                       fullReported, freed, fpIn, bfpOut, result >>
    /\ (pc = "test" /\ InDictionary(heap, code, c)) =>
          /\ UNCHANGED << out, heap, dictRoot, nextCode, currentCodeLen,
                          fullReported, freed, fpIn, bfpOut, result, c,
                          input >>
          /\ code' = CodeOf(heap, code, c)
          /\ pc' = "loop"

MatchStepFrame == [][MatchStep]_vars

\* a pair has just matched an entry that is not the root
MatchedBelowRoot ==
    /\ pc = "loop"
    /\ code >= FIRST_CODE
    /\ node # NULL
    /\ node # dictRoot
    /\ heap[node].codeWord = code
    /\ out # << >>


(***************************************************************************)
(* FindDictionaryEntry as one call, lines 365-414: NULL for an empty tree, *)
(* otherwise the node on which the while (1) loop returns.                 *)
(***************************************************************************)
RECURSIVE FindDictionaryEntry(_, _, _, _)
FindDictionaryEntry(h, r, prefixCode, ch) ==
    IF r = NULL THEN NULL
    ELSE LET nxt == FindNext(h, r, prefixCode, ch)
         IN  IF nxt = NULL THEN r
             ELSE FindDictionaryEntry(h, nxt, prefixCode, ch)

\* the child slot of node n on the side where (prefixCode, ch) would hang
SlotFor(h, n, prefixCode, ch) ==
    IF AttachLeft(prefixCode, ch, h[n]) THEN h[n].left ELSE h[n].right

(***************************************************************************)
(* C15: on a non-empty dictionary FindDictionaryEntry(root, p, c) returns  *)
(* the entry whose pair is (p, c) exactly when such an entry exists        *)
(* anywhere in the dictionary; otherwise it returns an entry whose child   *)
(* slot on the side chosen by the key comparison is empty, so the attach   *)
(* never overwrites a child and every entry stays reachable from the       *)
(* root.  On an empty dictionary it returns NULL.                          *)
(***************************************************************************)
LocateAnswer(p, ch) ==
    LET n == FindDictionaryEntry(heap, dictRoot, p, ch)
    IN  IF dictRoot = NULL THEN n = NULL
        ELSE /\ n \in TreeNodes
             /\ IsEntry(heap, n, p, ch) <=> InDictionary(heap, p, ch)
             /\ (~ IsEntry(heap, n, p, ch)) =>
                   SlotFor(heap, n, p, ch) = NULL

\* every tree of a run is seen between two steps of the driver, so the
\* answers are compared there, for every pair (p, ch)
LocateInv ==
    /\ (pc \in { "first", "seed", "loop" }) =>
          \A p \in 0 .. (MAX_CODES - 1) : \A ch \in Byte : LocateAnswer(p, ch)
    /\ (pc = "test" /\ dictRoot # NULL) => LocateAnswer(code, c)
    /\ TreeNodes = 1 .. Len(heap)
    /\ (pc = "test") => (node = FindDictionaryEntry(heap, dictRoot, code, c))

AttachStep ==
    \A n \in 1 .. Len(heap) :
       /\ (heap'[n].left # heap[n].left) =>
             (heap[n].left = NULL /\ heap'[n].left = Len(heap) + 1)
       /\ (heap'[n].right # heap[n].right) =>
             (heap[n].right = NULL /\ heap'[n].right = Len(heap) + 1)

LocateCorrect == [] LocateInv /\ [][AttachStep]_vars

\* a search went below the root and ended on a node with a free slot
LocatedInsertionPoint ==
    /\ pc = "test"
    /\ node # NULL
    /\ node # dictRoot
    /\ ~ IsEntry(heap, node, code, c)
    /\ SlotFor(heap, node, code, c) = NULL
    /\ Len(heap) >= 4


\* width of unsigned int, the type of a key
UINT_BITS == 32

(***************************************************************************)
(* MakeKey on its whole domain: FindDictionaryEntry (lines 375-382) is     *)
(* entered with any search pair (code, c), code in 0 .. MAX_CODES - 1, on  *)
(* a node that holds any pair (q, b), and compares the two keys.           *)
(***************************************************************************)
KeyInit ==
    /\ pc = "find"
    /\ pending = << >>
    /\ more = 0
    /\ input = << >>
    /\ c \in Byte
    /\ code \in 0 .. (MAX_CODES - 1)
    /\ currentCodeLen = MIN_CODE_LEN
    /\ nextCode = FIRST_CODE + 1
    /\ \E q \in 0 .. (MAX_CODES - 1) : \E b \in Byte :
          heap = << MakeNode(FIRST_CODE, q, b) >>
    /\ dictRoot = 1
    /\ root = 1
    /\ node = NULL
    /\ out = << >>
    /\ fullReported = FALSE
    /\ fpIn = "open"
    /\ bfpOut = "open"
    /\ freed = {}
    /\ result = "none"

KeyNext == FindStep

KeySpec == KeyInit /\ [][KeyNext]_vars

LastWords == { i \in 1 .. Len(out) : out[i].site = "last" }

FinalEmissionInv ==
    /\ (~ Returned) => (LastWords = {})
    /\ (Returned /\ input # << >>) =>
          /\ LastWords = { Len(out) }
          /\ out[Len(out)].code = code
          /\ out[Len(out)].codeLen = currentCodeLen
          /\ (Len(out) >= 2) => (out[Len(out) - 1].site # "escape")
    /\ (pc = "final") =>
          /\ c = EOF
          /\ (out # << >>) => (out[Len(out)].site # "escape")

FinalEmissionStep ==
    /\ (pc = "final") =>
          /\ out' = Append(out, [ code    |-> code,
                                  codeLen |-> currentCodeLen,
                                  site    |-> "last" ])
          /\ pc' = "returned"
          /\ UNCHANGED << code, currentCodeLen >>
    /\ (c' = EOF /\ c # EOF /\ input # << >>) => (pc' = "final" \/ pc' = "loop")
    /\ (pc = "loop" /\ c = EOF) => (c' = EOF /\ pc' = "final" /\ out' = out)

FinalEmission == [] FinalEmissionInv /\ [][FinalEmissionStep]_vars

\* the last word of a run was a dictionary code written at a grown width
LastWordAtGrownWidth ==
    /\ Succeeded
    /\ out[Len(out)].site = "last"
    /\ out[Len(out)].code >= FIRST_CODE
    /\ out[Len(out)].codeLen > MIN_CODE_LEN


(***************************************************************************)
(* C18: every word handed to PutCodeWord, the last one included, has a     *)
(* value below 2^codeLen for the codeLen it is written with, so no         *)
(* high-order bit of a code is dropped.                                    *)
(***************************************************************************)
NoTruncation ==
    \A i \in 1 .. Len(out) : out[i].code < CURRENT_MAX_CODES(out[i].codeLen)


\* number of words before the i-th that are not escapes
DataWordsBefore(i) ==
    Cardinality({ j \in 1 .. (i - 1) : out[j].site # "escape" })

(***************************************************************************)
(* C19: every word v that is not an escape is a literal or the code of an  *)
(* entry that existed before the insertion of the current step, and        *)
(* v <= FIRST_CODE - 1 + k, k being the number of non-escape words written *)
(* before it: a decoder that adds one entry per data word from the second  *)
(* on knows v or is about to define it.                                    *)
(***************************************************************************)
DecoderKnowsCodes ==
    \A i \in 1 .. Len(out) :
       (out[i].site # "escape") =>
          \/ out[i].code < FIRST_CODE
          \/ out[i].code <= FIRST_CODE - 1 + DataWordsBefore(i)

\* the entry made by the current Running step, if one was made
InsertedNow(n) ==
    /\ pc = "width"
    /\ n = Len(heap)
    /\ heap[n].prefixCode = code
    /\ heap[n].suffixChar = c

DataWordStep ==
    (Len(out') > Len(out) /\ out'[Len(out')].site # "escape") =>
       LET v == out'[Len(out')].code
       IN  \/ v < FIRST_CODE
           \/ \E n \in 1 .. Len(heap) :
                 heap[n].codeWord = v /\ ~ InsertedNow(n)

DecoderSynchronised == [] DecoderKnowsCodes /\ [][DataWordStep]_vars

\* the code written is the newest one a decoder can handle: it is defined
\* by the very word that carries it
NewestCodeWritten ==
    \E i \in 2 .. Len(out) :
       /\ out[i].site # "escape"
       /\ out[i].code >= FIRST_CODE
       /\ out[i].code = FIRST_CODE - 1 + DataWordsBefore(i)


\* the body of the while loop of line 191 is being executed
InLoopBody == pc \in { "find", "test", "width" }

(***************************************************************************)
(* C20: whenever the body of the Running loop executes the dictionary root *)
(* exists, so FindDictionaryEntry never returns NULL to the driver and     *)
(* node->prefixCode and node->suffixChar are read on a real entry; the     *)
(* body is not reached when the second read returned end of input.         *)
(***************************************************************************)
RootInLoopBody ==
    /\ InLoopBody => (dictRoot # NULL /\ dictRoot \in Allocated)
    /\ (pc = "find") => (root \in Allocated)
    /\ (pc = "test") => (node # NULL /\ node \in Allocated)
    /\ pc # "crashed"
    /\ (InLoopBody /\ pc # "find") => (node \in TreeNodes)

NoBodyAfterSeedEof ==
    (dictRoot = NULL /\ pc = "loop") =>
       (c = EOF /\ c' = EOF /\ pc' = "final")

NonEmptyInRunning == [] RootInLoopBody /\ [][NoBodyAfterSeedEof]_vars

\* the first search of a run has returned a node to the driver
FirstSearchReturned ==
    /\ pc = "test"
    /\ Len(input) = 3
    /\ node = dictRoot
    /\ node # NULL

(***************************************************************************)
(* C21: on every return of LZWEncodeFile after both files were opened,     *)
(* the empty-input failure return included, the input file and the output  *)
(* bit file have been closed.                                              *)
(***************************************************************************)
StreamsClosedOnReturn ==
    Returned => (fpIn = "closed" /\ bfpOut = "closed")

\* the return of line 257 is reached with both files closed
StreamsClosedOnSuccess ==
    Succeeded => (fpIn = "closed" /\ bfpOut = "closed")

====
